---- MODULE Spec2Model ----
(***************************************************************************)
(* ZipJob::into_file and ZipJob::compress_file of                          *)
(* src/zip_archive_parts/job.rs: the conversion of a job (a directory      *)
(* marker, a filesystem path, a byte buffer or a reader) into an archive   *)
(* entry, one conversion per worker.                                       *)
(***************************************************************************)
EXTENDS Integers, Sequences, FiniteSets, TLC

(* ------------------------------ bounds -------------------------------- *)

\* longest byte content of a buffer, a reader or a file
MaxLen == 2
\* most failed read calls a byte source makes during one conversion
MaxErrs == 1
\* workers converting jobs side by side under SpecPar
NumWorkers == 2

\* byte values the contents are drawn from
Byte == {0, 255}

(* --------------------------- integer widths --------------------------- *)

\* TLC's integers end at 2^31 - 1, so a 32-bit or 64-bit unsigned value v is
\* kept as the pair << v \div 2^16, v % 2^16 >>: a u32 has both halves below
\* 2^16, a usize (64-bit target) may have a first half of 2^16 and more.
Half == 2^16

Wide(n) == << n \div Half, n % Half >>

\* a + b of two pairs
WidePlus(a, b) == << a[1] + b[1] + ((a[2] + b[2]) \div Half), (a[2] + b[2]) % Half >>

\* a + n, for a pair a and a natural n below 2^31
WideAdd(a, n) == WidePlus(a, Wide(n))

\* `x <= u32::MAX as usize`
FitsU32(x) == x[1] < Half

\* `x as u32`: the truncating cast
AsU32(x) == << x[1] % Half, x[2] >>

\* `(x as u32) << 16` for a u16 x
Shl16(x) == << x % Half, 0 >>

\* bitwise exclusive or of two naturals
RECURSIVE Xor(_, _)
Xor(a, b) ==
    IF a = 0 THEN b
    ELSE IF b = 0 THEN a
    ELSE (((a % 2) + (b % 2)) % 2) + 2 * Xor(a \div 2, b \div 2)

Xor32(a, b) == << Xor(a[1], b[1]), Xor(a[2], b[2]) >>

(* ------------------------------ CRC-32 -------------------------------- *)

\* 0xEDB88320, the reflected IEEE 802.3 polynomial of flate2::Crc (crc32fast)
CrcPoly == << 60856, 33568 >>
AllOnes == << Half - 1, Half - 1 >>

\* one bit of the register shifted out
CrcBit(reg) ==
    LET shifted == << reg[1] \div 2, (reg[2] \div 2) + (reg[1] % 2) * (Half \div 2) >>
    IN  IF reg[2] % 2 = 1 THEN Xor32(shifted, CrcPoly) ELSE shifted

\* n bits shifted out; a register of zero stays zero
RECURSIVE CrcShift(_, _)
CrcShift(reg, n) ==
    IF n = 0 \/ reg = << 0, 0 >> THEN reg ELSE CrcShift(CrcBit(reg), n - 1)

RECURSIVE CrcFold(_, _)
CrcFold(reg, bytes) ==
    IF bytes = << >> THEN reg
    ELSE CrcFold(CrcShift(<< reg[1], Xor(reg[2], Head(bytes)) >>, 8), Tail(bytes))

\* Crc::update: the running sum after `bytes` more bytes
CrcUpdate(sum, bytes) == Xor32(CrcFold(Xor32(sum, AllOnes), bytes), AllOnes)

\* the CRC-32 of a whole buffer, from the empty sum
CRC32(bytes) == CrcUpdate(<< 0, 0 >>, bytes)

(* ------------------------------ deflate ------------------------------- *)

\* The deflate stream of `bytes`: one final stored block (RFC 1951, 3.2.4),
\* header byte 1 (BFINAL = 1, BTYPE = 00), LEN and its complement NLEN in
\* little endian, then the bytes.  Which block types the encoder picks at a
\* level is internal to the compressor; a stored block is a stream every
\* inflater accepts at every level.
DeflateStream(bytes, level) ==
    LET n == Len(bytes)
    IN  << 1, n % 256, n \div 256, 255 - (n % 256), 255 - (n \div 256) >> \o bytes

InvalidStream == << -1 >>

\* the inverse: the bytes a deflate stream decodes to, or InvalidStream
Inflate(stream) ==
    IF Len(stream) < 5 THEN InvalidStream
    ELSE LET n == stream[2] + 256 * stream[3]
         IN  IF /\ stream[1] = 1
                /\ stream[4] = 255 - stream[2]
                /\ stream[5] = 255 - stream[3]
                /\ Len(stream) = 5 + n
             THEN SubSeq(stream, 6, Len(stream))
             ELSE InvalidStream

(* --------------------------- byte sources ----------------------------- *)

\* What one call of Read::read on a source returns: <<"Data", bytes>> for
\* Ok(n) with n > 0, <<"Err", kind>> for Err(e); a source whose events are
\* used up returns Ok(0), the end of the stream.
ErrorKinds == {"Interrupted", "Other"}

Contents == UNION {[1..n -> Byte] : n \in 0..MaxLen}

\* the ways reads can deliver a content in non-empty chunks
RECURSIVE Splits(_)
Splits(b) ==
    IF b = << >> THEN {<< >>}
    ELSE UNION {{<< <<"Data", SubSeq(b, 1, k)>> >> \o s :
                    s \in Splits(SubSeq(b, k + 1, Len(b)))} : k \in 1..Len(b)}

\* the scripts with up to n failing reads put into script s; nothing is read
\* after an error that is not Interrupted
RECURSIVE WithErrs(_, _)
WithErrs(s, n) ==
    IF n = 0 THEN {s}
    ELSE {s} \cup UNION {
            {SubSeq(s, 1, i) \o << <<"Err", "Other">> >>}
            \cup {SubSeq(s, 1, i) \o << <<"Err", "Interrupted">> >> \o t :
                    t \in WithErrs(SubSeq(s, i + 1, Len(s)), n - 1)}
            : i \in 0..Len(s)}

Scripts == UNION {WithErrs(s, MaxErrs) : s \in UNION {Splits(b) : b \in Contents}}

\* the scripts of SpecPar: one chunk, a failing read, a read that is
\* interrupted once
ParScripts ==
    {<< <<"Data", << 0 >> >> >>, << <<"Err", "Other">> >>,
     << <<"Err", "Interrupted">>, <<"Data", << 255 >> >> >>}

\* the bytes a script delivers
RECURSIVE Delivered(_)
Delivered(s) ==
    IF s = << >> THEN << >>
    ELSE (IF Head(s)[1] = "Data" THEN Head(s)[2] ELSE << >>) \o Delivered(Tail(s))

\* `impl Read for &[u8]`: the whole slice in one read, and no error
SliceReader(b) == IF b = << >> THEN << >> ELSE << <<"Data", b>> >>

(* ------------------------------ the jobs ------------------------------ *)

CompressionType == {"Stored", "Deflate"}
CompressionLevel == {0, 6}
Targets == {"windows", "linux", "unix", "other"}

None == << >>
Some(v) == << v >>

\* path, auxiliary records, comment and attributes a caller gives a job
JobMeta ==
    { [archive_path |-> "a.txt", extra_fields |-> << >>, file_comment |-> None,
       external_attributes |-> 420],
      [archive_path |-> "dir", extra_fields |-> << "ux" >>, file_comment |-> Some("c"),
       external_attributes |-> Half - 1] }

JobPaths == {"p"}

Origins(contents, scripts) ==
    {[kind |-> "Directory"]}
    \cup {[kind |-> "Filesystem", path |-> p] : p \in JobPaths}
    \cup {[kind |-> "RawData", bytes |-> b] : b \in contents}
    \cup {[kind |-> "Reader", script |-> s] : s \in scripts}

ZipJob(origin, meta, level, type) ==
    [data_origin |-> origin,
     extra_fields |-> meta.extra_fields,
     archive_path |-> meta.archive_path,
     file_comment |-> meta.file_comment,
     external_attributes |-> meta.external_attributes,
     compression_level |-> level,
     compression_type |-> type]

JobsOver(contents, scripts, metas, levels) ==
    {ZipJob(o, m, l, t) : o \in Origins(contents, scripts), m \in metas,
                          l \in levels, t \in CompressionType}

\* the jobs of Spec, and the fewer jobs of SpecPar
Jobs == JobsOver(Contents, Scripts, JobMeta, CompressionLevel)
ParJobs ==
    JobsOver({<< 0, 255 >>}, ParScripts, {m \in JobMeta : m.file_comment = None}, {6})

(* --------------------------- the filesystem --------------------------- *)

\* native attribute words: st_mode of a regular file (0o100644), and a
\* Windows attribute word with a bit above the low 16 (0x20020)
FileBits == {33188, 2 * Half + 32}
\* st_mode of a directory (0o040755)
DirBits == {16877}

Metadata(len, native, is_dir) == [len |-> Wide(len), native |-> native, is_dir |-> is_dir]

NoMetadata == Metadata(0, 0, FALSE)

\* What a path resolves to: open fails, or open succeeds and metadata()
\* fails, or both succeed and reads of the handle follow the script.
FsNodesOver(scripts) ==
    {[open_ok |-> FALSE, stat_ok |-> FALSE, metadata |-> NoMetadata, script |-> << >>],
     [open_ok |-> TRUE, stat_ok |-> FALSE, metadata |-> NoMetadata, script |-> << >>]}
    \cup {[open_ok |-> TRUE, stat_ok |-> TRUE,
           metadata |-> Metadata(Len(Delivered(s)), n, FALSE), script |-> s] :
            s \in scripts, n \in FileBits}
    \cup {[open_ok |-> TRUE, stat_ok |-> TRUE,
           metadata |-> Metadata(0, n, TRUE), script |-> << <<"Err", "Other">> >>] :
            n \in DirBits}

\* the reads of a file handle: the content in one read (the Vec has the
\* capacity for it), with up to MaxErrs failing reads
FileScripts == UNION {WithErrs(SliceReader(b), MaxErrs) : b \in Contents}

FsNodes == FsNodesOver(FileScripts)
ParFsNodes == FsNodesOver(ParScripts)

(* ------------------------------- state -------------------------------- *)

VARIABLES
    build,      \* the build: target platform, debug assertions, panic strategy
    fs,         \* what each path a job names resolves to
    job,        \* job[w]: the ZipJob worker w converts
    pc,         \* pc[w]: where worker w is in into_file
    local,      \* local[w]: the locals of into_file and compress_file
    result,     \* result[w]: what into_file returned
    big         \* SpecBig: one conversion with the source kept as lengths only

vars == << build, fs, job, pc, local, result, big >>

Workers == DOMAIN job

NoResult == [kind |-> "None"]
Ok(file) == [kind |-> "Ok", file |-> file]
Err(e) == [kind |-> "Err", error |-> e]

\* the locals before compress_file runs
NoLocal ==
    [source |-> << >>, crc |-> << 0, 0 >>, data |-> << >>,
     encoder |-> [input |-> << >>, total_in |-> << 0, 0 >>],
     attributes |-> 0, extra_fields |-> << >>]

Builds == [target : Targets, debug_assertions : BOOLEAN, panic : {"unwind", "abort"}]

BigIdle == [pc |-> "idle"]

InitWith(workers, jobs, nodes) ==
    /\ build \in Builds
    /\ job \in [workers -> jobs]
    /\ fs \in [{job[w].data_origin.path :
                    w \in {v \in workers : job[v].data_origin.kind = "Filesystem"}}
               -> nodes]
    /\ pc = [w \in workers |-> "start"]
    /\ local = [w \in workers |-> NoLocal]
    /\ result = [w \in workers |-> NoResult]
    /\ big = BigIdle

Init == InitWith({1}, Jobs, FsNodes)

(* ------------------------- attribute extractor ------------------------ *)

\* file.rs: the attributes of targets with no native attribute model
DEFAULT_UNIX_FILE_ATTRS == 33188
DEFAULT_UNIX_DIR_ATTRS == 16877

\* (attrs & 0xFFFF) as u16
convert_attrs(attrs) == attrs % Half

\* the cfg_if! arms: file_attributes() on windows, st_mode() on linux,
\* permissions().mode() on the other unixes, a default elsewhere
attributes_from_fs(target, metadata) ==
    IF target \in {"windows", "linux", "unix"}
    THEN convert_attrs(metadata.native)
    ELSE IF metadata.is_dir THEN DEFAULT_UNIX_DIR_ATTRS ELSE DEFAULT_UNIX_FILE_ATTRS

\* ExtraFields::new_from_fs: the auxiliary records derived from metadata
new_from_fs(metadata) == << IF metadata.is_dir THEN "fs:dir" ELSE "fs:file" >>

\* ExtraFields::extend: append, keeping the order
extend(fields, more) == fields \o more

(* --------------------------- compress_file ---------------------------- *)

\* debug_assert!(cond) panics exactly in a build with debug assertions
DebugAssertFails(cond) == build.debug_assertions /\ ~cond

\* CrcReader::new(source), Vec::with_capacity(..), DeflateEncoder::new(..)
compress_file_start(l, source) ==
    [l EXCEPT !.source = source, !.crc = << 0, 0 >>, !.data = << >>,
              !.encoder = [input |-> << >>, total_in |-> << 0, 0 >>]]

\* read_chunk with the checksum left out of the Stored path
read_chunk_no_crc(l, type, bytes) ==
    IF type = "Deflate"
    THEN [l EXCEPT !.source = Tail(@), !.crc = CrcUpdate(@, bytes),
                   !.encoder = [input |-> @.input \o bytes,
                                total_in |-> WideAdd(@.total_in, Len(bytes))]]
    ELSE [l EXCEPT !.source = Tail(@), !.data = @ \o bytes]

\* One read that returns Ok(n), n > 0: the CrcReader adds the bytes to its
\* sum; Stored appends them to `data`, Deflate hands them to the encoder.
read_chunk(l, type, bytes) ==
    IF type = "Deflate"
    THEN [l EXCEPT !.source = Tail(@), !.crc = CrcUpdate(@, bytes),
                   !.encoder = [input |-> @.input \o bytes,
                                total_in |-> WideAdd(@.total_in, Len(bytes))]]
    ELSE [l EXCEPT !.source = Tail(@), !.crc = CrcUpdate(@, bytes),
                   !.data = @ \o bytes]

\* read_to_end retries a read that fails with ErrorKind::Interrupted
read_interrupted(l) == [l EXCEPT !.source = Tail(@)]

\* read_failed with the error swallowed and a default digest returned
read_failed_default(e) ==
    [kind |-> "Ok",
     file |-> [header |-> [compression_type |-> "Deflate", crc |-> << 0, 0 >>,
                           uncompressed_size |-> << 0, 0 >>, filename |-> "",
                           external_file_attributes |-> << 0, 0 >>,
                           extra_fields |-> << >>, file_comment |-> None],
               data |-> << >>]]

\* `?` on any other error: compress_file and into_file return it, the
\* locals are dropped
read_failed(e) == Err(e)

\* the value of the match of lines 87-94, a usize: encoder.total_in() for
\* Deflate, the count read_to_end returns for Stored
uncompressed_size_usize(total_in, read, type) ==
    IF type = "Deflate" THEN total_in ELSE read

\* the Vec compress_file returns
output_data(l, type, level) ==
    IF type = "Deflate" THEN DeflateStream(l.encoder.input, level) ELSE l.data

\* FileDigest with the checksum taken over the output bytes
FileDigest_crc_of_output(l, type, level) ==
    [data |-> output_data(l, type, level),
     uncompressed_size |->
        AsU32(uncompressed_size_usize(l.encoder.total_in, Wide(Len(l.data)), type)),
     crc |-> CRC32(output_data(l, type, level))]

\* lines 96-103: the FileDigest once the source is at its end
FileDigest(l, type, level) ==
    [data |-> output_data(l, type, level),
     uncompressed_size |->
        AsU32(uncompressed_size_usize(l.encoder.total_in, Wide(Len(l.data)), type)),
     crc |-> l.crc]

(* ------------------------------ into_file ----------------------------- *)

ZipFileHeader(type, crc, size, filename, attributes, extra_fields, comment) ==
    [compression_type |-> type, crc |-> crc, uncompressed_size |-> size,
     filename |-> filename, external_file_attributes |-> attributes,
     extra_fields |-> extra_fields, file_comment |-> comment]

ZipFile(header, data) == [header |-> header, data |-> data]

\* ZipFile::directory (file.rs): an entry with no payload that carries the
\* job's path, auxiliary records, attributes and comment
ZipFile_directory(archive_path, extra_fields, external_attributes, file_comment) ==
    ZipFile(ZipFileHeader("Stored", << 0, 0 >>, << 0, 0 >>, archive_path,
                          Shl16(external_attributes), extra_fields, file_comment),
            << >>)

\* into_file_Directory with the job's compression method put in the header
into_file_Directory_typed(j) ==
    Ok([ZipFile_directory(j.archive_path, j.extra_fields, j.external_attributes,
                          j.file_comment)
        EXCEPT !.header.compression_type = j.compression_type])

\* lines 108-113
into_file_Directory(j) ==
    Ok(ZipFile_directory(j.archive_path, j.extra_fields, j.external_attributes,
                         j.file_comment))

\* into_file_Filesystem with the caller's attributes, as the other arms have
into_file_Filesystem_caller_attrs(j, l, digest) ==
    Ok(ZipFile(ZipFileHeader("Deflate", digest.crc, digest.uncompressed_size,
                             j.archive_path, Shl16(j.external_attributes),
                             l.extra_fields, j.file_comment),
               digest.data))

\* lines 134-145
into_file_Filesystem(j, l, digest) ==
    Ok(ZipFile(ZipFileHeader("Deflate", digest.crc, digest.uncompressed_size,
                             j.archive_path, Shl16(l.attributes), l.extra_fields,
                             j.file_comment),
               digest.data))

\* lines 162-173
into_file_RawData(j, l, digest) ==
    Ok(ZipFile(ZipFileHeader("Deflate", digest.crc, digest.uncompressed_size,
                             j.archive_path, Shl16(j.external_attributes),
                             j.extra_fields, j.file_comment),
               digest.data))

\* lines 186-197
into_file_Reader(j, l, digest) ==
    Ok(ZipFile(ZipFileHeader("Deflate", digest.crc, digest.uncompressed_size,
                             j.archive_path, Shl16(j.external_attributes),
                             j.extra_fields, j.file_comment),
               digest.data))

into_file_finish(j, l, digest) ==
    CASE j.data_origin.kind = "Filesystem" -> into_file_Filesystem(j, l, digest)
      [] j.data_origin.kind = "RawData" -> into_file_RawData(j, l, digest)
      [] j.data_origin.kind = "Reader" -> into_file_Reader(j, l, digest)

(* ------------------------------ actions ------------------------------- *)

\* A panic in worker w: in a build with panic = "unwind" the worker unwinds
\* and returns nothing; in a build with panic = "abort" the process ends,
\* and every worker that is still converting with it.
Panic(w) ==
    /\ pc' = IF build.panic = "unwind"
             THEN [pc EXCEPT ![w] = "panicked"]
             ELSE [v \in Workers |-> IF v = w THEN "panicked"
                                     ELSE IF pc[v] = "done" THEN pc[v]
                                     ELSE "aborted"]
    /\ local' = [local EXCEPT ![w] = NoLocal]
    /\ UNCHANGED << build, fs, job, result, big >>

Return(w, r) ==
    /\ pc' = [pc EXCEPT ![w] = "done"]
    /\ result' = [result EXCEPT ![w] = r]
    /\ local' = [local EXCEPT ![w] = NoLocal]
    /\ UNCHANGED << build, fs, job, big >>

Goto(w, label, l) ==
    /\ pc' = [pc EXCEPT ![w] = label]
    /\ local' = [local EXCEPT ![w] = l]
    /\ UNCHANGED << build, fs, job, result, big >>

\* ZipJobOrigin::Directory
Directory(w) ==
    /\ pc[w] = "start"
    /\ job[w].data_origin.kind = "Directory"
    /\ Return(w, into_file_Directory(job[w]))

\* File::open(path).unwrap()
FileOpen(w) ==
    /\ pc[w] = "start"
    /\ job[w].data_origin.kind = "Filesystem"
    /\ IF fs[job[w].data_origin.path].open_ok
       THEN Goto(w, "opened", local[w])
       ELSE Panic(w)

\* file.metadata().unwrap() and lines 117-133 up to the first read
FileMetadata(w) ==
    /\ pc[w] = "opened"
    /\ LET node == fs[job[w].data_origin.path]
           md == node.metadata
       IN  IF ~node.stat_ok \/ DebugAssertFails(FitsU32(md.len))
           THEN Panic(w)
           ELSE Goto(w, "read",
                     [compress_file_start(local[w], node.script) EXCEPT
                        !.attributes = attributes_from_fs(build.target, md),
                        !.extra_fields = extend(new_from_fs(md), job[w].extra_fields)])

\* ZipJobOrigin::RawData, lines 148-161 up to the first read
RawData(w) ==
    /\ pc[w] = "start"
    /\ job[w].data_origin.kind = "RawData"
    /\ IF DebugAssertFails(FitsU32(Wide(Len(job[w].data_origin.bytes))))
       THEN Panic(w)
       ELSE Goto(w, "read", compress_file_start(local[w],
                                                SliceReader(job[w].data_origin.bytes)))

\* ZipJobOrigin::Reader, lines 176-185 up to the first read
Reader(w) ==
    /\ pc[w] = "start"
    /\ job[w].data_origin.kind = "Reader"
    /\ Goto(w, "read", compress_file_start(local[w], job[w].data_origin.script))

\* read_to_end, one read that delivers bytes
ReadData(w) ==
    /\ pc[w] = "read"
    /\ local[w].source # << >>
    /\ Head(local[w].source)[1] = "Data"
    /\ Goto(w, "read", read_chunk(local[w], job[w].compression_type,
                                  Head(local[w].source)[2]))

\* read_to_end, one read that is interrupted
ReadInterrupted(w) ==
    /\ pc[w] = "read"
    /\ local[w].source # << >>
    /\ Head(local[w].source) = <<"Err", "Interrupted">>
    /\ Goto(w, "read", read_interrupted(local[w]))

\* read_to_end, one read that fails
ReadFailed(w) ==
    /\ pc[w] = "read"
    /\ local[w].source # << >>
    /\ Head(local[w].source)[1] = "Err"
    /\ Head(local[w].source)[2] # "Interrupted"
    /\ Return(w, read_failed(Head(local[w].source)[2]))

\* read_to_end at the end of the source, and the rest of compress_file and
\* into_file
ReadEof(w) ==
    /\ pc[w] = "read"
    /\ local[w].source = << >>
    /\ IF DebugAssertFails(FitsU32(uncompressed_size_usize(
                                local[w].encoder.total_in, Wide(Len(local[w].data)),
                                job[w].compression_type)))
       THEN Panic(w)
       ELSE Return(w, into_file_finish(job[w], local[w],
                        FileDigest(local[w], job[w].compression_type,
                                   job[w].compression_level)))

Next ==
    \/ \E w \in Workers : Directory(w)
    \/ \E w \in Workers : FileOpen(w)
    \/ \E w \in Workers : FileMetadata(w)
    \/ \E w \in Workers : RawData(w)
    \/ \E w \in Workers : Reader(w)
    \/ \E w \in Workers : ReadData(w)
    \/ \E w \in Workers : ReadInterrupted(w)
    \/ \E w \in Workers : ReadFailed(w)
    \/ \E w \in Workers : ReadEof(w)

Spec == Init /\ [][Next]_vars

\* several jobs converted side by side, one per worker
InitPar == InitWith(1..NumWorkers, ParJobs, ParFsNodes)
SpecPar == InitPar /\ [][Next]_vars

(* ------------------- one conversion, start to end --------------------- *)

Panicked == [kind |-> "Panicked"]

\* Read::read_to_end over the CrcReader or the encoder: the locals at the
\* end of the source, or the first error that is not Interrupted
RECURSIVE read_to_end(_, _)
read_to_end(l, type) ==
    IF l.source = << >> THEN [kind |-> "Ok", l |-> l]
    ELSE IF Head(l.source)[1] = "Data"
         THEN read_to_end(read_chunk(l, type, Head(l.source)[2]), type)
    ELSE IF Head(l.source)[2] = "Interrupted"
         THEN read_to_end(read_interrupted(l), type)
    ELSE [kind |-> "Err", error |-> Head(l.source)[2]]

\* compress_file and the assembly that follows it in into_file
compress_file(j, l, source) ==
    LET type == j.compression_type
        r == read_to_end(compress_file_start(l, source), type)
    IN  IF r.kind = "Err" THEN read_failed(r.error)
        ELSE IF DebugAssertFails(FitsU32(uncompressed_size_usize(
                    r.l.encoder.total_in, Wide(Len(r.l.data)), type)))
        THEN Panicked
        ELSE into_file_finish(j, r.l, FileDigest(r.l, type, j.compression_level))

\* what into_file returns for job j when nothing else runs
into_file(j) ==
    CASE j.data_origin.kind = "Directory" -> into_file_Directory(j)
      [] j.data_origin.kind = "Filesystem" ->
            LET node == fs[j.data_origin.path]
                md == node.metadata
            IN  IF ~node.open_ok \/ ~node.stat_ok \/ DebugAssertFails(FitsU32(md.len))
                THEN Panicked
                ELSE compress_file(j,
                        [NoLocal EXCEPT
                            !.attributes = attributes_from_fs(build.target, md),
                            !.extra_fields = extend(new_from_fs(md), j.extra_fields)],
                        node.script)
      [] j.data_origin.kind = "RawData" ->
            IF DebugAssertFails(FitsU32(Wide(Len(j.data_origin.bytes))))
            THEN Panicked
            ELSE compress_file(j, NoLocal, SliceReader(j.data_origin.bytes))
      [] j.data_origin.kind = "Reader" ->
            compress_file(j, NoLocal, j.data_origin.script)

(* ------------- sources of more than 2^32 - 1 bytes (SpecBig) ---------- *)

\* most reads of a source under SpecBig
MaxBigReads == 2

\* the lengths one read delivers: 1, u32::MAX and 2^32 bytes
BigChunks == {Wide(1), << Half - 1, Half - 1 >>, << Half, 0 >>}

RECURSIVE WideSum(_)
WideSum(lens) == IF lens = << >> THEN << 0, 0 >> ELSE WidePlus(Head(lens), WideSum(Tail(lens)))

\* The conversion of a RawData, Reader or Filesystem job whose source is
\* given by the lengths of its chunks: only the byte counts of compress_file
\* and into_file are kept, not the bytes.
InitBig ==
    /\ build \in Builds
    /\ job = << >> /\ fs = << >> /\ pc = << >> /\ local = << >> /\ result = << >>
    /\ \E k \in {"RawData", "Reader", "Filesystem"}, t \in CompressionType,
          c \in UNION {[1..n -> BigChunks] : n \in 0..MaxBigReads} :
            big = [pc |-> "start", kind |-> k, type |-> t, chunks |-> c,
                   length |-> WideSum(c), read |-> << 0, 0 >>,
                   total_in |-> << 0, 0 >>, result |-> NoResult]

BigGoto(label, b) ==
    /\ big' = [b EXCEPT !.pc = label]
    /\ UNCHANGED << build, fs, job, pc, local, result >>

\* lines 117-119 and 148-150: the length of the file or the buffer, its
\* debug assertion and the truncating cast to the capacity hint
BigStart ==
    /\ big.pc = "start"
    /\ IF big.kind \in {"RawData", "Filesystem"} /\ DebugAssertFails(FitsU32(big.length))
       THEN BigGoto("panicked", big)
       ELSE BigGoto("read", big)

\* one read of read_to_end that delivers bytes
BigRead ==
    /\ big.pc = "read"
    /\ big.chunks # << >>
    /\ BigGoto("read",
               IF big.type = "Deflate"
               THEN [big EXCEPT !.chunks = Tail(@),
                                !.total_in = WidePlus(@, Head(big.chunks))]
               ELSE [big EXCEPT !.chunks = Tail(@),
                                !.read = WidePlus(@, Head(big.chunks))])

\* lines 95-96 at the end of the source
BigEof ==
    /\ big.pc = "read"
    /\ big.chunks = << >>
    /\ LET size == uncompressed_size_usize(big.total_in, big.read, big.type)
       IN  IF DebugAssertFails(FitsU32(size))
           THEN BigGoto("panicked", big)
           ELSE BigGoto("done", [big EXCEPT !.result =
                                    [kind |-> "Ok", uncompressed_size |-> AsU32(size)]])

NextBig == BigStart \/ BigRead \/ BigEof

SpecBig == InitBig /\ [][NextBig]_vars


(* ------------------------------ properties ---------------------------- *)

ByteKinds == {"Filesystem", "RawData", "Reader"}

\* the reads worker w's source makes
ScriptOf(w) ==
    CASE job[w].data_origin.kind = "RawData" -> SliceReader(job[w].data_origin.bytes)
      [] job[w].data_origin.kind = "Reader" -> job[w].data_origin.script
      [] job[w].data_origin.kind = "Filesystem" -> fs[job[w].data_origin.path].script
      [] OTHER -> << >>

\* the uncompressed bytes of worker w's source
SourceBytes(w) == Delivered(ScriptOf(w))

ReturnedOk(w) == pc[w] = "done" /\ result[w].kind = "Ok"

\* C1: into_file on RawData(b) with Stored never panics and returns an entry
\* whose payload is b, whose uncompressed_size is len(b) and whose checksum
\* is CRC32(b); for the empty buffer the size and the checksum are 0.
C1_StoredRawData ==
    \A w \in Workers :
        (job[w].data_origin.kind = "RawData" /\ job[w].compression_type = "Stored") =>
            LET b == job[w].data_origin.bytes
            IN  /\ pc[w] \notin {"panicked", "aborted"}
                /\ pc[w] = "done" =>
                    /\ result[w].kind = "Ok"
                    /\ result[w].file.data = b
                    /\ result[w].file.header.uncompressed_size = Wide(Len(b))
                    /\ result[w].file.header.crc = CRC32(b)
                    /\ b = << >> =>
                        /\ result[w].file.header.uncompressed_size = << 0, 0 >>
                        /\ result[w].file.header.crc = << 0, 0 >>

C1_Witness ==
    \E w \in Workers :
        /\ job[w].data_origin.kind = "RawData"
        /\ job[w].compression_type = "Stored"
        /\ Len(job[w].data_origin.bytes) > 1
        /\ ReturnedOk(w)

\* C2: a conversion with Deflate that returns an entry returns a payload that
\* inflates to the source bytes, with the checksum and the size of the
\* source bytes; on RawData it always returns an entry.
C2_DeflateRoundTrip ==
    \A w \in Workers :
        (job[w].data_origin.kind \in ByteKinds /\ job[w].compression_type = "Deflate") =>
            /\ (job[w].data_origin.kind = "RawData" /\ pc[w] = "done") =>
                    result[w].kind = "Ok"
            /\ ReturnedOk(w) =>
                    /\ Inflate(result[w].file.data) = SourceBytes(w)
                    /\ result[w].file.header.crc = CRC32(SourceBytes(w))
                    /\ result[w].file.header.uncompressed_size = Wide(Len(SourceBytes(w)))

C2_Witness ==
    \E w \in Workers :
        /\ job[w].data_origin.kind = "RawData"
        /\ job[w].compression_type = "Deflate"
        /\ Len(job[w].data_origin.bytes) > 1
        /\ ReturnedOk(w)

\* C3: the header of an entry built from RawData or Reader names the job's
\* requested method, and the payload is encoded with it: the raw bytes for
\* Stored, a deflate stream of them for Deflate.
C3_HeaderMethodIsUsedMethod ==
    \A w \in Workers :
        (job[w].data_origin.kind \in {"RawData", "Reader"} /\ ReturnedOk(w)) =>
            /\ result[w].file.header.compression_type = job[w].compression_type
            /\ job[w].compression_type = "Stored" =>
                    result[w].file.data = SourceBytes(w)
            /\ job[w].compression_type = "Deflate" =>
                    Inflate(result[w].file.data) = SourceBytes(w)

\* C4: the entry of a Filesystem job is compressed with Deflate and its
\* header names Deflate, whatever method the job requests.
C4_FilesystemIsDeflated ==
    \A w \in Workers :
        (job[w].data_origin.kind = "Filesystem" /\ ReturnedOk(w)) =>
            /\ result[w].file.header.compression_type = "Deflate"
            /\ Inflate(result[w].file.data) = SourceBytes(w)

\* C5: a conversion whose source yields more than 2^32 - 1 bytes ends with
\* an error in every build: it neither panics nor returns an entry (whose
\* size could only be the count modulo 2^32).
C5_OverflowIsAnError ==
    (big.pc \in {"done", "panicked"} /\ ~FitsU32(big.length)) =>
        (big.pc = "done" /\ big.result.kind = "Err")

\* C6: when the open of a Filesystem job's path or the read of its metadata
\* fails, into_file does not panic and returns an Err.
C6_OpenFailureIsAnError ==
    \A w \in Workers :
        (/\ job[w].data_origin.kind = "Filesystem"
         /\ ~(fs[job[w].data_origin.path].open_ok /\ fs[job[w].data_origin.path].stat_ok)) =>
            /\ pc[w] # "panicked"
            /\ pc[w] = "done" => result[w].kind = "Err"

\* the kinds of the errors a script's reads return
ErrorsOf(s) == {s[i][2] : i \in {k \in 1..Len(s) : s[k][1] = "Err"}}

\* C7 as claimed: a conversion whose source returned a read error of any
\* kind returns an error, and no entry.
C7_AnyReadErrorIsReturned ==
    \A w \in Workers :
        (job[w].data_origin.kind \in ByteKinds /\ pc[w] = "done"
         /\ ErrorsOf(ScriptOf(w)) # {}) =>
            result[w].kind = "Err"

\* C7, amended: a conversion whose source returned a read error of a kind
\* other than Interrupted returns exactly that error: no entry, no digest,
\* and the bytes read before it are dropped.
C7_ReadErrorIsReturned ==
    \A w \in Workers :
        (job[w].data_origin.kind \in ByteKinds /\ pc[w] = "done") =>
            \A e \in ErrorsOf(ScriptOf(w)) \ {"Interrupted"} :
                /\ result[w] = [kind |-> "Err", error |-> e]
                /\ local[w] = NoLocal

C7_Witness ==
    \E w \in Workers :
        /\ job[w].data_origin.kind = "Reader"
        /\ job[w].compression_type = "Deflate"
        /\ pc[w] = "done"
        /\ Len(ScriptOf(w)) > 1
        /\ ScriptOf(w)[1][1] = "Data"
        /\ ScriptOf(w)[Len(ScriptOf(w))] = <<"Err", "Other">>
        /\ result[w].kind = "Err"

\* C8: a Directory job reads no source and never fails; its entry has an
\* empty payload and size 0, carries the job's path, auxiliary records,
\* attributes and comment, and is the entry of the same job with any other
\* compression method and level.
C8_Directory ==
    \A w \in Workers :
        job[w].data_origin.kind = "Directory" =>
            /\ pc[w] \in {"start", "done"}
            /\ local[w] = NoLocal
            /\ pc[w] = "done" =>
                /\ result[w].kind = "Ok"
                /\ result[w].file.data = << >>
                /\ result[w].file.header.uncompressed_size = << 0, 0 >>
                /\ result[w].file.header.filename = job[w].archive_path
                /\ result[w].file.header.extra_fields = job[w].extra_fields
                /\ result[w].file.header.file_comment = job[w].file_comment
                /\ result[w].file.header.external_file_attributes[1]
                        = job[w].external_attributes
                /\ \A t \in CompressionType, l \in CompressionLevel :
                        result[w] = into_file_Directory(
                            [job[w] EXCEPT !.compression_type = t,
                                           !.compression_level = l])

C8_Witness ==
    \E w \in Workers :
        /\ job[w].data_origin.kind = "Directory"
        /\ job[w].compression_type = "Deflate"
        /\ job[w].file_comment # None
        /\ ReturnedOk(w)

\* C9: with several workers, no worker is stopped by another one's failure,
\* and each returns what into_file returns for its job alone.
C9_JobsIndependent ==
    \A w \in Workers :
        /\ pc[w] # "aborted"
        /\ pc[w] = "done" => result[w] = into_file(job[w])
        /\ pc[w] = "panicked" => into_file(job[w]) = Panicked

\* C10 as claimed: the attribute word has its low 16 bits zero and in its
\* high 16 bits the caller's attributes for RawData and Reader, the native
\* attribute or mode bits masked with 0xFFFF for Filesystem.
C10_AttributesAreMaskedNativeBits ==
    \A w \in Workers :
        (job[w].data_origin.kind \in ByteKinds /\ ReturnedOk(w)) =>
            /\ result[w].file.header.external_file_attributes[2] = 0
            /\ result[w].file.header.external_file_attributes[1] =
                IF job[w].data_origin.kind = "Filesystem"
                THEN fs[job[w].data_origin.path].metadata.native % Half
                ELSE job[w].external_attributes

\* C10, amended: as claimed on the windows, linux and unix targets; on any
\* other target the high 16 bits of a Filesystem entry are the default
\* directory or file attributes, chosen by is_dir.
C10_AttributeWord ==
    \A w \in Workers :
        (job[w].data_origin.kind \in ByteKinds /\ ReturnedOk(w)) =>
            /\ result[w].file.header.external_file_attributes[2] = 0
            /\ result[w].file.header.external_file_attributes[1] =
                IF job[w].data_origin.kind # "Filesystem"
                THEN job[w].external_attributes
                ELSE IF build.target \in {"windows", "linux", "unix"}
                THEN fs[job[w].data_origin.path].metadata.native % Half
                ELSE IF fs[job[w].data_origin.path].metadata.is_dir
                THEN DEFAULT_UNIX_DIR_ATTRS
                ELSE DEFAULT_UNIX_FILE_ATTRS

C10_Witness ==
    \E w \in Workers :
        /\ job[w].data_origin.kind = "Filesystem"
        /\ build.target = "windows"
        /\ fs[job[w].data_origin.path].metadata.native >= Half
        /\ ReturnedOk(w)

====
